---- MODULE Spec2Model ----
(***************************************************************************)
(* SSH certificate authority functions (ssh-certificate-authority-fns):    *)
(* template policy validation (certificate type, principals, TTL) and the  *)
(* key generation / public key derivation / signing operations that talk   *)
(* to ssh-keygen through temporary files.                                  *)
(*                                                                         *)
(* Strings are sequences of one-character strings, so that startsWith,     *)
(* endsWith, includes, slice and the duration parser work on characters.   *)
(***************************************************************************)
EXTENDS Integers, Sequences, FiniteSets, TLC

VARIABLES
    fn,          \* policy function under evaluation
    template,    \* TSshCertificateTemplates argument
    certType,    \* SshCertType argument
    principals,  \* requested principals
    ttl,         \* requested TTL (string or undefined)
    outcome,     \* what the call did: not called yet, returned a value, or threw
    randomBytes, \* the bytes crypto.randomBytes(8) gave createSshCertSerialNumber
    fs,          \* working directory: file name -> file
    umask,       \* file mode creation mask of the process
    inv,         \* invocations of createSshKeyPair / getSshPublicKey / createSshCert
    interference \* history: <<i, j>> when i touched a file created by in-flight j

policyVars == <<fn, template, certType, principals, ttl, outcome, randomBytes>>
fsVars == <<fs, umask, inv, interference>>
vars ==
    <<fn, template, certType, principals, ttl, outcome, randomBytes, fs, umask, inv,
      interference>>

(***************************************************************************)
(* Bounds of the model.                                                    *)
(***************************************************************************)
MaxPrincipals == 2
MaxDurLen == 3
NumIds == 2

(***************************************************************************)
(* JavaScript strings and values.                                          *)
(***************************************************************************)
Undefined == <<"undefined">>
NullList == {<<"null">>}

StartsWith(s, p) == Len(s) >= Len(p) /\ SubSeq(s, 1, Len(p)) = p
EndsWith(s, p) == Len(s) >= Len(p) /\ SubSeq(s, Len(s) - Len(p) + 1, Len(s)) = p
IncludesChar(s, c) == \E i \in 1..Len(s) : s[i] = c
Slice(s, from) == SubSeq(s, from + 1, Len(s))

SeqsUpTo(S, n) == UNION {[1..k -> S] : k \in 0..n}

(***************************************************************************)
(* JavaScript numbers as they arise here: an integer, an integer divided   *)
(* by 1000, or NaN (what undefined becomes in arithmetic and comparison).  *)
(***************************************************************************)
JsNum(n) == [nan |-> FALSE, num |-> n, den |-> 1]
NaN == [nan |-> TRUE, num |-> 0, den |-> 1]
JsGreater(a, b) == ~a.nan /\ ~b.nan /\ a.num * b.den > b.num * a.den
JsDivide(a, k) == IF a.nan THEN NaN ELSE [nan |-> FALSE, num |-> a.num, den |-> a.den * k]

(***************************************************************************)
(* The duration parser ms(): an optional minus sign, decimal digits and an *)
(* optional unit; the value in milliseconds, or undefined (NaN here) when  *)
(* the string is not a duration.  Only called on non-empty strings.        *)
(***************************************************************************)
Digits == {"0", "1", "2", "3", "4", "5", "6", "7", "8", "9"}

DigitValue(c) ==
    CASE c = "0" -> 0 [] c = "1" -> 1 [] c = "2" -> 2 [] c = "3" -> 3 [] c = "4" -> 4
      [] c = "5" -> 5 [] c = "6" -> 6 [] c = "7" -> 7 [] c = "8" -> 8 [] c = "9" -> 9

RECURSIVE DecimalValue(_)
DecimalValue(ds) ==
    IF ds = <<>> THEN 0
    ELSE 10 * DecimalValue(SubSeq(ds, 1, Len(ds) - 1)) + DigitValue(ds[Len(ds)])

RECURSIVE LeadingDigits(_)
LeadingDigits(s) ==
    IF s = <<>> \/ Head(s) \notin Digits THEN 0 ELSE 1 + LeadingDigits(Tail(s))

UnitMillis(u) ==
    CASE u = <<>> -> 1
      [] u = <<"m", "s">> -> 1
      [] u = <<"s">> -> 1000
      [] u = <<"m">> -> 60 * 1000
      [] u = <<"h">> -> 60 * 60 * 1000
      [] OTHER -> 0

ms(str) ==
    LET neg == str # <<>> /\ Head(str) = "-"
        body == IF neg THEN Tail(str) ELSE str
        k == LeadingDigits(body)
        n == DecimalValue(SubSeq(body, 1, k))
        unit == SubSeq(body, k + 1, Len(body))
    IN  IF k = 0 \/ UnitMillis(unit) = 0 THEN NaN
        ELSE JsNum((IF neg THEN 0 - n ELSE n) * UnitMillis(unit))

(***************************************************************************)
(* ssh-certificate-template-validators: the syntax of user names and host  *)
(* names.  Both validators are pattern validators: they also accept the    *)
(* policy wildcards ("*", and "*.domain" for hosts).                       *)
(***************************************************************************)
IsLabels(s) ==
    /\ s # <<>>
    /\ \A i \in 1..Len(s) : s[i] \in {"a", "."}
    /\ s[1] # "." /\ s[Len(s)] # "."
    /\ \A i \in 1..(Len(s) - 1) : ~(s[i] = "." /\ s[i + 1] = ".")

isValidUserPattern(value) ==
    \/ value = <<"*">>
    \/ value # <<>> /\ \A i \in 1..Len(value) : value[i] = "a"

isValidHostPattern(value) ==
    \/ value = <<"*">>
    \/ StartsWith(value, <<"*", ".">>) /\ IsLabels(Slice(value, 2))
    \/ IsLabels(value)

(***************************************************************************)
(* validateSshCertificateType                                              *)
(***************************************************************************)
Returned(v) == [kind |-> "return", value |-> v]
Threw(e) == [kind |-> "throw", value |-> e]
NotCalled == [kind |-> "none", value |-> Undefined]

validateSshCertificateType_FlagsSwapped(t, ct) ==
    IF ~t.allowHostCertificates /\ ct = "user" THEN Threw("BadRequestError")
    ELSE IF ~t.allowUserCertificates /\ ct = "host" THEN Threw("BadRequestError")
    ELSE Returned(Undefined)

validateSshCertificateType(t, ct) ==
    IF ~t.allowUserCertificates /\ ct = "user" THEN Threw("BadRequestError")
    ELSE IF ~t.allowHostCertificates /\ ct = "host" THEN Threw("BadRequestError")
    ELSE Returned(Undefined)

(***************************************************************************)
(* validateSshCertificatePrincipals                                        *)
(***************************************************************************)
ListIncludes(list, x) == list # NullList /\ x \in list

UserPrincipalOk(t, principal) ==
    LET allowsAllUsers == ListIncludes(t.allowedUsers, <<"*">>)
    IN  IF principal = <<"*">> THEN FALSE
        ELSE IF allowsAllUsers THEN isValidUserPattern(principal)
        ELSE ListIncludes(t.allowedUsers, principal)

AllowedHostMatches_NoDot(allowedHost, principal) ==
    IF StartsWith(allowedHost, <<"*", ".">>)
    THEN LET baseDomain == Slice(allowedHost, 2)
         IN  EndsWith(principal, baseDomain)
    ELSE principal = allowedHost

AllowedHostMatches(allowedHost, principal) ==
    IF StartsWith(allowedHost, <<"*", ".">>)
    THEN LET baseDomain == Slice(allowedHost, 2)
         IN  EndsWith(principal, <<".">> \o baseDomain)
    ELSE principal = allowedHost

HostPrincipalOk_NoWildcardCheck(t, principal) ==
    LET allowsAllHosts == ListIncludes(t.allowedHosts, <<"*">>)
    IN  IF allowsAllHosts THEN isValidHostPattern(principal)
        ELSE /\ isValidHostPattern(principal)
             /\ t.allowedHosts # NullList
             /\ \E allowedHost \in t.allowedHosts : AllowedHostMatches(allowedHost, principal)

HostPrincipalOk(t, principal) ==
    LET allowsAllHosts == ListIncludes(t.allowedHosts, <<"*">>)
    IN  IF IncludesChar(principal, "*") THEN FALSE
        ELSE IF allowsAllHosts THEN isValidHostPattern(principal)
        ELSE /\ isValidHostPattern(principal)
             /\ t.allowedHosts # NullList
             /\ \E allowedHost \in t.allowedHosts : AllowedHostMatches(allowedHost, principal)

validateSshCertificatePrincipals(ct, t, ps) ==
    CASE ct = "user" -> Returned(\A i \in 1..Len(ps) : UserPrincipalOk(t, ps[i]))
      [] ct = "host" -> Returned(\A i \in 1..Len(ps) : HostPrincipalOk(t, ps[i]))
      [] OTHER -> Threw("BadRequestError")

(***************************************************************************)
(* validateSshCertificateTtl                                               *)
(***************************************************************************)
Falsy(s) == s = Undefined \/ s = <<>>

validateSshCertificateTtl_GreaterOrEqual(t, requested) ==
    IF Falsy(requested) THEN Returned(ms(t.ttl))
    ELSE IF ~JsGreater(ms(t.maxTTL), ms(requested)) /\ ~ms(requested).nan
    THEN Threw("BadRequestError")
    ELSE Returned(JsDivide(ms(requested), 1000))

validateSshCertificateTtl(t, requested) ==
    IF Falsy(requested) THEN Returned(ms(t.ttl))
    ELSE IF JsGreater(ms(requested), ms(t.maxTTL)) THEN Threw("BadRequestError")
    ELSE Returned(JsDivide(ms(requested), 1000))

(***************************************************************************)
(* Inputs of the policy functions.                                         *)
(***************************************************************************)
PrincipalChars == {"a", ".", "*"}
PrincipalStrings == SeqsUpTo(PrincipalChars, 3)
PrincipalLists == SeqsUpTo(PrincipalStrings, MaxPrincipals)
SinglePrincipalLists == SeqsUpTo(PrincipalStrings, 1)
\* every allowed list of at most two entries, and no list at all
AllowedLists ==
    {NullList} \cup {{x, y} : x \in PrincipalStrings, y \in PrincipalStrings} \cup {{}}
\* the allowed lists the principal lists of full length are tried against
CoreAllowedLists ==
    {NullList, {}, {<<"*">>}, {<<"a">>}, {<<"*", ".", "a">>}, {<<"a", ".", "a">>},
     {<<"*", ".", "a">>, <<"a">>}, {<<"*">>, <<"a">>}, {<<"a">>, <<"a", "a">>}}
PrincipalInputs ==
    (PrincipalLists \X CoreAllowedLists) \cup (SinglePrincipalLists \X AllowedLists)

DurationChars == {"-", "0", "1", "2", "3", "s", "m", "h"}
RequestedTtls == {Undefined} \cup SeqsUpTo(DurationChars, MaxDurLen)
TemplateDurations ==
    {<<"3", "0", "s">>, <<"1", "m">>, <<"3", "0", "m">>, <<"1", "h">>, <<"2", "h">>}

CertTypes == {"user", "host", "other"}

DefaultTemplate ==
    [allowUserCertificates |-> TRUE, allowHostCertificates |-> TRUE,
     allowedUsers |-> {}, allowedHosts |-> {},
     ttl |-> <<"1", "h">>, maxTTL |-> <<"2", "h">>]

NoFiles == <<>>

PolicyInit ==
    /\ outcome = NotCalled
    /\ randomBytes = <<>>
    /\ fs = NoFiles
    /\ umask = {"gw", "ow"}
    /\ inv = <<>>
    /\ interference = {}
    /\ \/ /\ fn = "validateSshCertificateType"
          /\ \E u \in BOOLEAN, h \in BOOLEAN :
                template = [DefaultTemplate EXCEPT !.allowUserCertificates = u,
                                                   !.allowHostCertificates = h]
          /\ certType \in CertTypes
          /\ principals = <<>>
          /\ ttl = Undefined
       \/ /\ fn = "validateSshCertificatePrincipals"
          /\ certType \in CertTypes
          /\ \E in \in PrincipalInputs :
                /\ certType = "other" => in \in SinglePrincipalLists \X CoreAllowedLists
                /\ principals = in[1]
                /\ template = IF certType = "user"
                              THEN [DefaultTemplate EXCEPT !.allowedUsers = in[2]]
                              ELSE [DefaultTemplate EXCEPT !.allowedHosts = in[2]]
          /\ ttl = Undefined
       \/ /\ fn = "validateSshCertificateTtl"
          /\ \E d \in TemplateDurations, m \in TemplateDurations :
                /\ ~JsGreater(ms(d), ms(m))
                /\ template = [DefaultTemplate EXCEPT !.ttl = d, !.maxTTL = m]
          /\ certType = "user"
          /\ principals = <<>>
          /\ ttl \in RequestedTtls

ValidateType ==
    /\ fn = "validateSshCertificateType" /\ outcome.kind = "none"
    /\ outcome' = validateSshCertificateType(template, certType)
    /\ UNCHANGED <<fn, template, certType, principals, ttl, randomBytes, fs, umask, inv,
                   interference>>

ValidatePrincipals ==
    /\ fn = "validateSshCertificatePrincipals" /\ outcome.kind = "none"
    /\ outcome' = validateSshCertificatePrincipals(certType, template, principals)
    /\ UNCHANGED <<fn, template, certType, principals, ttl, randomBytes, fs, umask, inv,
                   interference>>

ValidateTtl ==
    /\ fn = "validateSshCertificateTtl" /\ outcome.kind = "none"
    /\ outcome' = validateSshCertificateTtl(template, ttl)
    /\ UNCHANGED <<fn, template, certType, principals, ttl, randomBytes, fs, umask, inv,
                   interference>>

PolicyNext == ValidateType \/ ValidatePrincipals \/ ValidateTtl

PolicySpec == PolicyInit /\ [][PolicyNext]_vars

(***************************************************************************)
(* Properties of the policy functions.                                     *)
(***************************************************************************)
Called(f) == fn = f /\ outcome.kind # "none"
ReturnedFrom(f) == fn = f /\ outcome.kind = "return"

\* a / b as numbers, for denominators 1 and 1000, without leaving 32 bits
NumEq(a, b) ==
    /\ ~a.nan /\ ~b.nan
    /\ IF a.den = b.den THEN a.num = b.num
       ELSE IF a.den < b.den
       THEN b.num % (b.den \div a.den) = 0 /\ a.num = b.num \div (b.den \div a.den)
       ELSE a.num % (a.den \div b.den) = 0 /\ b.num = a.num \div (a.den \div b.den)
\* r seconds <= m milliseconds
SecondsLeqMillis(r, m) == ~r.nan /\ ~m.nan /\ r.num <= m.num \div (1000 \div r.den)

HasUserWildcard == \E i \in 1..Len(principals) : principals[i] = <<"*">>
HasHostWildcard == \E i \in 1..Len(principals) : IncludesChar(principals[i], "*")

\* C2: validateSshCertificatePrincipals never returns true when a requested
\* principal is a policy wildcard: a user principal equal to "*", or a host
\* principal containing the character '*', whatever the template allows.
C2_WildcardPrincipalRejected ==
    ReturnedFrom("validateSshCertificatePrincipals") =>
        /\ (certType = "user" /\ HasUserWildcard) => outcome.value = FALSE
        /\ (certType = "host" /\ HasHostWildcard) => outcome.value = FALSE

\* a host request with a wildcard principal of valid pattern syntax, under a
\* template that allows every host, was rejected
C2_Witness ==
    /\ ReturnedFrom("validateSshCertificatePrincipals")
    /\ certType = "host"
    /\ template.allowedHosts = {<<"*">>}
    /\ principals = <<(<<"*", ".", "a">>)>>
    /\ isValidHostPattern(principals[1])
    /\ outcome.value = FALSE

\* C3: validateSshCertificateType throws exactly when the requested type is
\* host and the template forbids host certificates, or the requested type is
\* user and the template forbids user certificates; otherwise it returns
\* nothing (undefined).
C3_TypeRejectedExactlyWhenForbidden ==
    Called("validateSshCertificateType") =>
        /\ outcome.kind = "throw" <=>
              \/ certType = "host" /\ template.allowHostCertificates = FALSE
              \/ certType = "user" /\ template.allowUserCertificates = FALSE
        /\ outcome.kind = "return" => outcome.value = Undefined

\* a host request was refused by a template that allows user certificates only
C3_Witness ==
    /\ Called("validateSshCertificateType")
    /\ certType = "host"
    /\ template.allowHostCertificates = FALSE
    /\ template.allowUserCertificates = TRUE
    /\ outcome.kind = "throw"

\* C4: whenever validateSshCertificateTtl returns, the returned number r, read
\* as seconds, is positive and at most template.maxTTL in seconds.
C4_ResolvedTtlPositiveAndWithinMax ==
    ReturnedFrom("validateSshCertificateTtl") =>
        /\ ~outcome.value.nan /\ outcome.value.num > 0
        /\ SecondsLeqMillis(outcome.value, ms(template.maxTTL))

\* C5: with no requested TTL, validateSshCertificateTtl returns template.ttl in
\* seconds: the parser's millisecond value divided by 1000.
C5_DefaultTtlInSeconds ==
    (ReturnedFrom("validateSshCertificateTtl") /\ ttl = Undefined) =>
        NumEq(outcome.value, JsDivide(ms(template.ttl), 1000))

\* C6: with a requested TTL that is a duration, validateSshCertificateTtl throws
\* exactly when the requested milliseconds are strictly greater than the
\* milliseconds of template.maxTTL, and otherwise returns the requested
\* milliseconds divided by 1000.
C6_RequestedTtlBoundedByMax ==
    (Called("validateSshCertificateTtl") /\ ~Falsy(ttl) /\ ~ms(ttl).nan) =>
        /\ outcome.kind = "throw" <=> ms(ttl).num > ms(template.maxTTL).num
        /\ outcome.kind = "return" =>
              outcome.value = [nan |-> FALSE, num |-> ms(ttl).num, den |-> 1000]

\* a requested TTL equal to the maximum of "2h" was returned, in seconds
C6_Witness ==
    /\ ReturnedFrom("validateSshCertificateTtl")
    /\ template.maxTTL = <<"2", "h">>
    /\ ~Falsy(ttl)
    /\ ms(ttl) = ms(template.maxTTL)
    /\ outcome.value = [nan |-> FALSE, num |-> 7200000, den |-> 1000]

\* C7: for a host request under a template whose allowedHosts has no "*"
\* entry, the result is true iff every principal has no '*', has valid host
\* name syntax, and equals an entry of allowedHosts or ends with "." + D for
\* an entry "*.D"; under allowedHosts = ["*.a"], "a.a" is the only name of up
\* to three characters that is accepted ("a" and "aa" are not).
HostEntries == IF template.allowedHosts = NullList THEN {} ELSE template.allowedHosts
HostAccepted(p) ==
    /\ ~IncludesChar(p, "*")
    /\ isValidHostPattern(p)
    /\ \E e \in HostEntries :
          \/ p = e
          \/ \E D \in PrincipalStrings, k \in 0..Len(p) :
                e = <<"*", ".">> \o D /\ p = SubSeq(p, 1, k) \o <<".">> \o D
C7_HostPrincipalsMatchAllowedHosts ==
    (Called("validateSshCertificatePrincipals") /\ certType = "host"
        /\ <<"*">> \notin HostEntries) =>
        /\ outcome.kind = "return"
        /\ outcome.value <=> \A i \in 1..Len(principals) : HostAccepted(principals[i])
        /\ (HostEntries = {<<"*", ".", "a">>} /\ Len(principals) = 1) =>
              (outcome.value <=> principals[1] = <<"a", ".", "a">>)

\* a sub-domain and an exactly listed host were accepted together under
\* allowedHosts = ["*.a", "a"]
C7_Witness ==
    /\ ReturnedFrom("validateSshCertificatePrincipals")
    /\ certType = "host"
    /\ template.allowedHosts = {<<"*", ".", "a">>, <<"a">>}
    /\ principals = <<(<<"a", ".", "a">>), <<"a">>>>
    /\ outcome.value = TRUE


(***************************************************************************)
(* The working directory and the three operations that use it.  A file has *)
(* a content, permission bits, and (history) the invocation that created   *)
(* it.  A content records its kind and the invocations whose inputs it was *)
(* produced from.  Each fs call and each run of ssh-keygen is one step;    *)
(* an invocation's steps interleave with those of the others.              *)
(***************************************************************************)
\* two invocations run concurrently: a file is shared by a pair of them
Invocations == {1, 2}
Ids == 1..NumIds

Mode0600 == {"ur", "uw"}
Mode0644 == {"ur", "uw", "gr", "or"}
Mode0666 == {"ur", "uw", "gr", "gw", "or", "ow"}
\* the umask the process runs under: 022 or 077
Umasks == {{"gw", "ow"}, {"gr", "gw", "or", "ow"}}

NoContent == [kind |-> "none", from |-> {}]
EmptyContent == [kind |-> "empty", from |-> {}]
PrivateKeyOf(i) == [kind |-> "private", from |-> {i}]
PublicKeyOf(i) == [kind |-> "public", from |-> {i}]

\* `ssh_key_${uniqueId}` and `${privateKeyFile}.pub`
SshKeyFile_Fixed(uniqueId) == <<"ssh_key_", 0, "">>
SshKeyFile(uniqueId) == <<"ssh_key_", uniqueId, "">>
PubFileOf(privateKeyFile) == <<privateKeyFile[1], privateKeyFile[2], ".pub">>
\* `user_key_${uniqueId}.pub`, `ssh_ca_key_${uniqueId}`, `user_key_${uniqueId}-cert.pub`
UserKeyFile(uniqueId) == <<"user_key_", uniqueId, ".pub">>
CaKeyFile(uniqueId) == <<"ssh_ca_key_", uniqueId, "">>
SignedKeyFile(uniqueId) == <<"user_key_", uniqueId, "-cert.pub">>

Idle ==
    [op |-> "none", pc |-> "idle", uniqueId |-> 0, keyAlgorithm |-> "none",
     publicKey |-> NoContent, privateKey |-> NoContent, signedPublicKey |-> NoContent]

Init ==
    /\ fn = "none"
    /\ template = DefaultTemplate
    /\ certType = "user"
    /\ principals = <<>>
    /\ ttl = Undefined
    /\ outcome = NotCalled
    /\ randomBytes = <<>>
    /\ fs = NoFiles
    /\ umask \in Umasks
    /\ inv = [i \in Invocations |-> Idle]
    /\ interference = {}

InFlight(i) == inv[i].pc \notin {"idle", "returned", "threw"}
Exists(f) == f \in DOMAIN fs
Unlinked(f) == [n \in DOMAIN fs \ {f} |-> fs[n]]
\* a new file gets `mode`; an existing file keeps its permissions
Written(f, c, mode, i) ==
    [n \in DOMAIN fs \cup {f} |->
        IF n # f THEN fs[n]
        ELSE IF Exists(f) THEN [fs[f] EXCEPT !.content = c]
        ELSE [content |-> c, perms |-> mode, owner |-> i]]
Touch(i, f) ==
    IF Exists(f) /\ fs[f].owner # i /\ InFlight(fs[f].owner)
    THEN {<<i, fs[f].owner>>} ELSE {}
Goto(i, l) == [inv EXCEPT ![i].pc = l]

\* if (fs.existsSync(f)) fs.unlinkSync(f)
UnlinkIfExists(i, at, f, next) ==
    /\ inv[i].pc = at
    /\ fs' = IF Exists(f) THEN Unlinked(f) ELSE fs
    /\ interference' = interference \cup Touch(i, f)
    /\ inv' = Goto(i, next)
    /\ UNCHANGED <<policyVars, umask>>

\* fs.unlinkSync(f): throws when the file is not there
UnlinkSync(i, at, f, next) ==
    /\ inv[i].pc = at
    /\ IF Exists(f)
       THEN fs' = Unlinked(f) /\ inv' = Goto(i, next)
       ELSE fs' = fs /\ inv' = Goto(i, "threw")
    /\ interference' = interference \cup Touch(i, f)
    /\ UNCHANGED <<policyVars, umask>>

\* fs.writeFileSync(f, c)
WriteFileSync(i, at, f, c, next) ==
    /\ inv[i].pc = at
    /\ fs' = Written(f, c, Mode0666 \ umask, i)
    /\ interference' = interference \cup Touch(i, f)
    /\ inv' = Goto(i, next)
    /\ UNCHANGED <<policyVars, umask>>

\* fs.chmodSync(f, 0o600); the file is the one just written
ChmodSync(i, at, f, next) ==
    /\ inv[i].pc = at
    /\ IF Exists(f)
       THEN fs' = [fs EXCEPT ![f].perms = Mode0600] /\ inv' = Goto(i, next)
       ELSE fs' = fs /\ inv' = Goto(i, "threw")
    /\ interference' = interference \cup Touch(i, f)
    /\ UNCHANGED <<policyVars, umask>>

(***************************************************************************)
(* createSshKeyPair                                                        *)
(***************************************************************************)
KeyAlgorithms == {"RSA_2048", "unrecognized"}

CallCreateSshKeyPair(i) ==
    /\ inv[i].pc = "idle"
    /\ \E id \in Ids, alg \in KeyAlgorithms :
          inv' = [inv EXCEPT ![i] = [Idle EXCEPT !.op = "createSshKeyPair", !.pc = "L32",
                                                 !.uniqueId = id, !.keyAlgorithm = alg]]
    /\ UNCHANGED <<policyVars, fs, umask, interference>>

KeyPair_L32(i) ==
    /\ inv[i].op = "createSshKeyPair"
    /\ UnlinkIfExists(i, "L32", PubFileOf(SshKeyFile(inv[i].uniqueId)), "L33")

\* the switch on keyAlgorithm follows: its default case throws
KeyPair_L33(i) ==
    /\ inv[i].op = "createSshKeyPair"
    /\ UnlinkIfExists(i, "L33", SshKeyFile(inv[i].uniqueId),
                      IF inv[i].keyAlgorithm = "unrecognized" THEN "threw" ELSE "L59")

\* execSync(`ssh-keygen -t .. -b .. -f ${privateKeyFile} ..`): writes the
\* private key (0600) and the public key (0644); it does not overwrite an
\* existing private key file without confirmation; a failed command throws
KeyPair_L59(i) ==
    LET privateKeyFile == SshKeyFile(inv[i].uniqueId)
        publicKeyFile == PubFileOf(privateKeyFile)
    IN  /\ inv[i].op = "createSshKeyPair" /\ inv[i].pc = "L59"
        /\ \/ /\ ~Exists(privateKeyFile)
              /\ fs' = [n \in DOMAIN fs \cup {privateKeyFile, publicKeyFile} |->
                          IF n = privateKeyFile
                          THEN [content |-> PrivateKeyOf(i), perms |-> Mode0600, owner |-> i]
                          ELSE IF n = publicKeyFile
                          THEN IF Exists(n) THEN [fs[n] EXCEPT !.content = PublicKeyOf(i)]
                               ELSE [content |-> PublicKeyOf(i), perms |-> Mode0644, owner |-> i]
                          ELSE fs[n]]
              /\ interference' = interference \cup Touch(i, publicKeyFile)
              /\ inv' = Goto(i, "L61")
           \/ /\ fs' = fs
              /\ interference' = interference \cup Touch(i, privateKeyFile)
              /\ inv' = Goto(i, "threw")
        /\ UNCHANGED <<policyVars, umask>>

\* fs.readFileSync(f, "utf8") into a local variable
ReadFileSync(i, at, f, local, next) ==
    /\ inv[i].pc = at
    /\ IF Exists(f)
       THEN inv' = [inv EXCEPT ![i].pc = next, ![i][local] = fs[f].content]
       ELSE inv' = Goto(i, "threw")
    /\ interference' = interference \cup Touch(i, f)
    /\ UNCHANGED <<policyVars, fs, umask>>

KeyPair_L61(i) ==
    /\ inv[i].op = "createSshKeyPair"
    /\ ReadFileSync(i, "L61", PubFileOf(SshKeyFile(inv[i].uniqueId)), "publicKey", "L62")

KeyPair_L62(i) ==
    /\ inv[i].op = "createSshKeyPair"
    /\ ReadFileSync(i, "L62", SshKeyFile(inv[i].uniqueId), "privateKey", "L64")

KeyPair_L64(i) ==
    /\ inv[i].op = "createSshKeyPair"
    /\ UnlinkSync(i, "L64", SshKeyFile(inv[i].uniqueId), "L65")

KeyPair_L65(i) ==
    /\ inv[i].op = "createSshKeyPair"
    /\ UnlinkSync(i, "L65", PubFileOf(SshKeyFile(inv[i].uniqueId)), "returned")

createSshKeyPair(i) ==
    \/ CallCreateSshKeyPair(i) \/ KeyPair_L32(i) \/ KeyPair_L33(i) \/ KeyPair_L59(i)
    \/ KeyPair_L61(i) \/ KeyPair_L62(i) \/ KeyPair_L64(i) \/ KeyPair_L65(i)

(***************************************************************************)
(* getSshPublicKey                                                         *)
(***************************************************************************)
CallGetSshPublicKey(i) ==
    /\ inv[i].pc = "idle"
    /\ \E id \in Ids :
          inv' = [inv EXCEPT ![i] = [Idle EXCEPT !.op = "getSshPublicKey", !.pc = "L79",
                                                 !.uniqueId = id]]
    /\ UNCHANGED <<policyVars, fs, umask, interference>>

PublicKey_L79(i) ==
    /\ inv[i].op = "getSshPublicKey"
    /\ UnlinkIfExists(i, "L79", PubFileOf(SshKeyFile(inv[i].uniqueId)), "L80")

PublicKey_L80(i) ==
    /\ inv[i].op = "getSshPublicKey"
    /\ UnlinkIfExists(i, "L80", SshKeyFile(inv[i].uniqueId), "L82")

PublicKey_L82(i) ==
    /\ inv[i].op = "getSshPublicKey"
    /\ WriteFileSync(i, "L82", SshKeyFile(inv[i].uniqueId), PrivateKeyOf(i), "L83")

PublicKey_L83(i) ==
    /\ inv[i].op = "getSshPublicKey"
    /\ ChmodSync(i, "L83", SshKeyFile(inv[i].uniqueId), "L86")

\* execSync(`ssh-keygen -y -f ${privateKeyFile} > ${publicKeyFile}`): the shell
\* creates or truncates the public key file, then ssh-keygen derives the
\* public key of the private key in the file, or fails
PublicKey_L86(i) ==
    LET privateKeyFile == SshKeyFile(inv[i].uniqueId)
        publicKeyFile == PubFileOf(privateKeyFile)
    IN  /\ inv[i].op = "getSshPublicKey" /\ inv[i].pc = "L86"
        /\ \/ /\ Exists(privateKeyFile) /\ fs[privateKeyFile].content.kind = "private"
              /\ fs' = Written(publicKeyFile,
                               [kind |-> "public", from |-> fs[privateKeyFile].content.from],
                               Mode0666 \ umask, i)
              /\ inv' = Goto(i, "L88")
           \/ /\ fs' = Written(publicKeyFile, EmptyContent, Mode0666 \ umask, i)
              /\ inv' = Goto(i, "threw")
        /\ interference' = interference \cup Touch(i, privateKeyFile) \cup Touch(i, publicKeyFile)
        /\ UNCHANGED <<policyVars, umask>>

PublicKey_L88(i) ==
    /\ inv[i].op = "getSshPublicKey"
    /\ ReadFileSync(i, "L88", PubFileOf(SshKeyFile(inv[i].uniqueId)), "publicKey", "L90")

PublicKey_L90(i) ==
    /\ inv[i].op = "getSshPublicKey"
    /\ UnlinkSync(i, "L90", SshKeyFile(inv[i].uniqueId), "L91")

PublicKey_L91(i) ==
    /\ inv[i].op = "getSshPublicKey"
    /\ UnlinkSync(i, "L91", PubFileOf(SshKeyFile(inv[i].uniqueId)), "returned")

getSshPublicKey(i) ==
    \/ CallGetSshPublicKey(i) \/ PublicKey_L79(i) \/ PublicKey_L80(i) \/ PublicKey_L82(i)
    \/ PublicKey_L83(i) \/ PublicKey_L86(i) \/ PublicKey_L88(i) \/ PublicKey_L90(i)
    \/ PublicKey_L91(i)

(***************************************************************************)
(* createSshCert                                                           *)
(***************************************************************************)
CallCreateSshCert(i) ==
    /\ inv[i].pc = "idle"
    /\ \E id \in Ids :
          inv' = [inv EXCEPT ![i] = [Idle EXCEPT !.op = "createSshCert", !.pc = "L191",
                                                 !.uniqueId = id]]
    /\ UNCHANGED <<policyVars, fs, umask, interference>>

Cert_L191(i) ==
    /\ inv[i].op = "createSshCert"
    /\ UnlinkIfExists(i, "L191", UserKeyFile(inv[i].uniqueId), "L192")

Cert_L192(i) ==
    /\ inv[i].op = "createSshCert"
    /\ UnlinkIfExists(i, "L192", CaKeyFile(inv[i].uniqueId), "L193")

Cert_L193(i) ==
    /\ inv[i].op = "createSshCert"
    /\ UnlinkIfExists(i, "L193", SignedKeyFile(inv[i].uniqueId), "L196")

Cert_L196(i) ==
    /\ inv[i].op = "createSshCert"
    /\ WriteFileSync(i, "L196", UserKeyFile(inv[i].uniqueId), PublicKeyOf(i), "L197")

Cert_L197(i) ==
    /\ inv[i].op = "createSshCert"
    /\ WriteFileSync(i, "L197", CaKeyFile(inv[i].uniqueId), PrivateKeyOf(i), "L198")

Cert_L198(i) ==
    /\ inv[i].op = "createSshCert"
    /\ ChmodSync(i, "L198", CaKeyFile(inv[i].uniqueId), "L217")

\* execSync(`ssh-keygen -s ${privateKeyFile} .. ${publicKeyFile}`): signs the
\* public key in the file with the CA key in the file and writes the
\* certificate file, or fails
Cert_L217(i) ==
    LET publicKeyFile == UserKeyFile(inv[i].uniqueId)
        privateKeyFile == CaKeyFile(inv[i].uniqueId)
        signedPublicKeyFile == SignedKeyFile(inv[i].uniqueId)
    IN  /\ inv[i].op = "createSshCert" /\ inv[i].pc = "L217"
        /\ \/ /\ Exists(privateKeyFile) /\ fs[privateKeyFile].content.kind = "private"
              /\ Exists(publicKeyFile) /\ fs[publicKeyFile].content.kind = "public"
              /\ fs' = Written(signedPublicKeyFile,
                               [kind |-> "certificate",
                                from |-> fs[privateKeyFile].content.from
                                           \cup fs[publicKeyFile].content.from],
                               Mode0644, i)
              /\ inv' = Goto(i, "L219")
           \/ /\ fs' = fs
              /\ inv' = Goto(i, "threw")
        /\ interference' = interference \cup Touch(i, privateKeyFile)
                               \cup Touch(i, publicKeyFile) \cup Touch(i, signedPublicKeyFile)
        /\ UNCHANGED <<policyVars, umask>>

Cert_L219(i) ==
    /\ inv[i].op = "createSshCert"
    /\ ReadFileSync(i, "L219", SignedKeyFile(inv[i].uniqueId), "signedPublicKey", "L221")

Cert_L221(i) ==
    /\ inv[i].op = "createSshCert"
    /\ UnlinkSync(i, "L221", UserKeyFile(inv[i].uniqueId), "L222")

Cert_L222(i) ==
    /\ inv[i].op = "createSshCert"
    /\ UnlinkSync(i, "L222", CaKeyFile(inv[i].uniqueId), "L223")

Cert_L223(i) ==
    /\ inv[i].op = "createSshCert"
    /\ UnlinkSync(i, "L223", SignedKeyFile(inv[i].uniqueId), "returned")

createSshCert(i) ==
    \/ CallCreateSshCert(i) \/ Cert_L191(i) \/ Cert_L192(i) \/ Cert_L193(i)
    \/ Cert_L196(i) \/ Cert_L197(i) \/ Cert_L198(i) \/ Cert_L217(i)
    \/ Cert_L219(i) \/ Cert_L221(i) \/ Cert_L222(i) \/ Cert_L223(i)

Next == \E i \in Invocations : createSshKeyPair(i) \/ getSshPublicKey(i) \/ createSshCert(i)

Spec == Init /\ [][Next]_vars

(***************************************************************************)
(* Properties of the operations on the working directory.                  *)
(***************************************************************************)
Exited(i) == inv[i].pc \in {"returned", "threw"}
Remains(i, f) == Exists(f) /\ fs[f].owner = i
PrivateKeyFileOf(i) ==
    IF inv[i].op = "createSshCert" THEN CaKeyFile(inv[i].uniqueId)
    ELSE SshKeyFile(inv[i].uniqueId)

\* C1: when a call of createSshCert has returned or thrown, none of the three
\* temporary files it created (requester public key, CA private key, signed
\* certificate) is left on disk.
C1_CertFilesDeletedOnEveryExit ==
    \A i \in Invocations :
        (inv[i].op = "createSshCert" /\ Exited(i)) =>
            /\ ~Remains(i, UserKeyFile(inv[i].uniqueId))
            /\ ~Remains(i, CaKeyFile(inv[i].uniqueId))
            /\ ~Remains(i, SignedKeyFile(inv[i].uniqueId))

\* C8: whenever, during a call of createSshCert or getSshPublicKey, the
\* temporary private key file exists with the key in it, its permissions are
\* owner read/write only (0600).
C8_PrivateKeyFileOwnerOnly ==
    \A i \in Invocations :
        (inv[i].op \in {"createSshCert", "getSshPublicKey"} /\ InFlight(i)) =>
            LET f == PrivateKeyFileOf(i)
            IN  (Exists(f) /\ fs[f].content.kind = "private") => fs[f].perms = Mode0600

\* C10: when a call of createSshKeyPair or getSshPublicKey has returned or
\* thrown, neither the private key file nor the .pub file it created is left
\* on disk.
C10_KeyFilesDeletedOnEveryExit ==
    \A i \in Invocations :
        (inv[i].op \in {"createSshKeyPair", "getSshPublicKey"} /\ Exited(i)) =>
            /\ ~Remains(i, SshKeyFile(inv[i].uniqueId))
            /\ ~Remains(i, PubFileOf(SshKeyFile(inv[i].uniqueId)))

OwnMaterial(i) ==
    /\ inv[i].publicKey.from \subseteq {i}
    /\ inv[i].privateKey.from \subseteq {i}
    /\ inv[i].signedPublicKey.from \subseteq {i}

\* C9 as stated: in every interleaving no invocation deletes, overwrites or
\* reads a file created by another in-flight invocation, and an invocation
\* that returns has read material produced from its own inputs only.
C9_NoInvocationTouchesAnothersFiles ==
    /\ interference = {}
    /\ \A i \in Invocations : inv[i].pc = "returned" => OwnMaterial(i)

\* C9, amended: an invocation touches a file created by another in-flight
\* invocation only if the two drew the same random suffix, and an invocation
\* that returns after no such collision returns material produced from its
\* own inputs only.
C9_NoInterferenceWithoutSuffixCollision ==
    /\ \A p \in interference : inv[p[1]].uniqueId = inv[p[2]].uniqueId
    /\ \A i \in Invocations :
          (inv[i].pc = "returned" /\ \A j \in Invocations \ {i} :
                                        inv[j].uniqueId # inv[i].uniqueId) => OwnMaterial(i)

\* a derivation and a signing call with different suffixes are in flight at
\* once, each past its read, each holding material from its own inputs
C9_Witness ==
    /\ inv[1].op = "getSshPublicKey" /\ inv[1].pc = "L90"
    /\ inv[2].op = "createSshCert" /\ inv[2].pc = "L221"
    /\ inv[1].uniqueId # inv[2].uniqueId
    /\ inv[1].publicKey = [kind |-> "public", from |-> {1}]
    /\ inv[2].signedPublicKey = [kind |-> "certificate", from |-> {2}]
    /\ interference = {}

(***************************************************************************)
(* createSshCertSerialNumber.  A Buffer is a sequence of bytes (0..255); a *)
(* BigInt is a sequence of 16-bit limbs, least significant first, with no  *)
(* leading zero limb (zero is the empty sequence); a string is a sequence  *)
(* of characters, as everywhere.                                           *)
(***************************************************************************)
SerialBytes == 8
MsbMask == 127

RECURSIVE BitAnd(_, _, _)
\* a & b on n-bit operands
BitAnd(a, b, n) ==
    IF n = 0 THEN 0
    ELSE (a % 2) * (b % 2) + 2 * BitAnd(a \div 2, b \div 2, n - 1)

HexChars ==
    <<"0", "1", "2", "3", "4", "5", "6", "7", "8", "9", "a", "b", "c", "d", "e", "f">>
HexChar(n) == HexChars[n + 1]
HexValue(c) == CHOOSE n \in 0..15 : HexChars[n + 1] = c

RECURSIVE BufferToHex(_)
\* buffer.toString("hex"): two hex characters per byte
BufferToHex(bytes) ==
    IF bytes = <<>> THEN <<>>
    ELSE <<HexChar(Head(bytes) \div 16), HexChar(Head(bytes) % 16)>> \o BufferToHex(Tail(bytes))

RECURSIVE BigMulAdd(_, _, _)
\* limbs * m + c
BigMulAdd(limbs, m, c) ==
    IF limbs = <<>> THEN (IF c = 0 THEN <<>> ELSE <<c>>)
    ELSE LET x == Head(limbs) * m + c
         IN  <<x % 65536>> \o BigMulAdd(Tail(limbs), m, x \div 65536)

RECURSIVE BigIntFromHex(_)
\* BigInt(`0x${hex}`)
BigIntFromHex(hex) ==
    IF hex = <<>> THEN <<>>
    ELSE BigMulAdd(BigIntFromHex(SubSeq(hex, 1, Len(hex) - 1)), 16, HexValue(hex[Len(hex)]))

RECURSIVE BigDivMod(_, _)
\* quotient (limbs, possibly with leading zero limbs) and remainder of limbs / d
BigDivMod(limbs, d) ==
    IF limbs = <<>> THEN [q |-> <<>>, r |-> 0]
    ELSE LET hi == BigDivMod(Tail(limbs), d)
             x == hi.r * 65536 + Head(limbs)
         IN  [q |-> <<x \div d>> \o hi.q, r |-> x % d]

RECURSIVE BigNormalize(_)
BigNormalize(limbs) ==
    IF limbs # <<>> /\ limbs[Len(limbs)] = 0
    THEN BigNormalize(SubSeq(limbs, 1, Len(limbs) - 1))
    ELSE limbs

RECURSIVE BigDigits(_)
BigDigits(limbs) ==
    IF limbs = <<>> THEN <<>>
    ELSE LET dm == BigDivMod(limbs, 10)
         IN  BigDigits(BigNormalize(dm.q)) \o <<HexChar(dm.r)>>

\* bigint.toString(10)
BigIntToString10(limbs) == IF limbs = <<>> THEN <<"0">> ELSE BigDigits(limbs)

createSshCertSerialNumber_NoMask(bytes) ==
    BigIntToString10(BigIntFromHex(BufferToHex(bytes)))

createSshCertSerialNumber(bytes) ==
    LET masked == [bytes EXCEPT ![1] = BitAnd(bytes[1], MsbMask, 8)]
    IN  BigIntToString10(BigIntFromHex(BufferToHex(masked)))

\* the draws tried: every first byte, the middle bytes all zeros or all ones,
\* a last byte of mixed bits
FirstBytes == 0..255
MiddleBytes == {0, 255}
LastBytes == {0, 1, 165, 255}
RandomDraws ==
    {<<f>> \o m \o <<l>> :
        f \in FirstBytes, m \in [1..(SerialBytes - 2) -> MiddleBytes], l \in LastBytes}

SerialInit ==
    /\ fn = "createSshCertSerialNumber"
    /\ template = DefaultTemplate
    /\ certType = "user"
    /\ principals = <<>>
    /\ ttl = Undefined
    /\ outcome = NotCalled
    /\ randomBytes \in RandomDraws
    /\ fs = NoFiles
    /\ umask = {"gw", "ow"}
    /\ inv = <<>>
    /\ interference = {}

CreateSerialNumber ==
    /\ fn = "createSshCertSerialNumber" /\ outcome.kind = "none"
    /\ outcome' = Returned(createSshCertSerialNumber(randomBytes))
    /\ UNCHANGED <<fn, template, certType, principals, ttl, randomBytes, fs, umask, inv,
                   interference>>

SerialNext == CreateSerialNumber

SerialSpec == SerialInit /\ [][SerialNext]_vars

(***************************************************************************)
(* Properties of createSshCertSerialNumber.  The returned string is read   *)
(* back by long division of its decimal digits by two.                     *)
(***************************************************************************)
IsDecimalString(str) ==
    /\ str # <<>>
    /\ \A i \in 1..Len(str) : str[i] \in Digits
    /\ str[1] = "0" => str = <<"0">>

RECURSIVE DecimalDigits(_)
DecimalDigits(str) ==
    IF str = <<>> THEN <<>> ELSE <<DigitValue(Head(str))>> \o DecimalDigits(Tail(str))

RECURSIVE DecimalQuot(_, _, _)
\* long division of the decimal digits ds by d, carry coming in: the quotient
DecimalQuot(ds, carry, d) ==
    IF ds = <<>> THEN <<>>
    ELSE <<(carry * 10 + Head(ds)) \div d>>
             \o DecimalQuot(Tail(ds), (carry * 10 + Head(ds)) % d, d)

RECURSIVE DecimalRem(_, _, _)
\* the remainder of the same division
DecimalRem(ds, carry, d) ==
    IF ds = <<>> THEN carry
    ELSE DecimalRem(Tail(ds), (carry * 10 + Head(ds)) % d, d)

RECURSIVE DecimalShift(_, _)
\* the digits of the number divided by 256^n
DecimalShift(ds, n) == IF n = 0 THEN ds ELSE DecimalShift(DecimalQuot(ds, 0, 256), n - 1)

RECURSIVE DecimalBytes(_, _)
\* the n low bytes of the number, most significant first
DecimalBytes(ds, n) ==
    IF n = 0 THEN <<>>
    ELSE DecimalBytes(DecimalQuot(ds, 0, 256), n - 1) \o <<DecimalRem(ds, 0, 256)>>

\* the draw with the most significant bit of its first byte cleared
TopBitCleared(bytes) == [bytes EXCEPT ![1] = @ % 128]

\* C11: createSshCertSerialNumber returns the base-10 rendering of the
\* big-endian 64-bit value of the drawn bytes with the top bit cleared: a
\* decimal string s with 0 <= s < 2^63 whose low 63 bits are those of the draw.
C11_SerialIsDrawWithTopBitCleared ==
    ReturnedFrom("createSshCertSerialNumber") =>
        LET ds == DecimalDigits(outcome.value)
        IN  /\ IsDecimalString(outcome.value)
            /\ DecimalShift(ds, SerialBytes) = [i \in 1..Len(ds) |-> 0]
            /\ DecimalBytes(ds, SerialBytes) = TopBitCleared(randomBytes)

\* a draw of eight 0xff bytes, top bit set, gave 2^63 - 1
C11_Witness ==
    /\ ReturnedFrom("createSshCertSerialNumber")
    /\ randomBytes = <<255, 255, 255, 255, 255, 255, 255, 255>>
    /\ outcome.value = <<"9", "2", "2", "3", "3", "7", "2", "0", "3", "6", "8", "5", "4", "7",
                         "7", "5", "8", "0", "7">>

====
